---------------------------- MODULE Spec2Model ----------------------------
(***************************************************************************)
(* A model of resource-miner (src/src/main.rs): N Worker threads take      *)
(* nonce chunks from a BlockManager behind a Mutex, hash every nonce of    *)
(* the chunk, classify the digest with ResourceMatcher::match_hash and     *)
(* send discoveries over an mpsc channel to one aggregator thread, which   *)
(* counts them, appends them to mined.txt and prints a status line.        *)
(*                                                                         *)
(* Scaling.  u32::MAX = 4294967295 does not fit TLC's 32-bit integers, so  *)
(* the nonce space and the chunk size are scaled down (MaxNonce, ChunkLen);*)
(* the arithmetic of get_block is kept as written, with the wrap of u32.   *)
(* Digests and thresholds keep their 32 bytes.  A Block (created_at, seed) *)
(* is a fresh identifier; blake3 is a fixed injective function.            *)
(***************************************************************************)
EXTENDS Integers, Sequences, FiniteSets, TLC

\* ------------------------------------------------------------------ bounds
\* The scaled u32::MAX (the largest nonce).
MaxNonce == 3
\* The scaled CHUNK_SIZE.
ChunkLen == 2
\* Number of worker threads (the "threads" argument).
NumWorkers == 2
\* Rotations explored: get_block is not entered once the active block is
\* exhausted and this many blocks have been retired.
MaxMined == 1

U32_MAX == MaxNonce
CHUNK_SIZE == ChunkLen
Workers == 1..NumWorkers
\* The aggregator thread, as a holder of the lock.
AggId == NumWorkers + 1

\* Bytes of a digest and of a ResourceTarget ([u8; 32]); indices as in the code.
TargetLen == 32
Idx == 0..(TargetLen - 1)

VARIABLES
    blocks,     \* BlockManager.blocks: <<active, spare>>, each [block, nonce]
    bm_mined,   \* BlockManager.mined
    nextBlock,  \* the identity Block::new() returns next
    lock,       \* holder of the Mutex<BlockManager>: 0 (free), a worker, or AggId
    poisoned,   \* the Mutex is poisoned
    worker,     \* per worker: [pc, block, start, end, n]
    chan,       \* the mpsc channel's queue
    rxAlive,    \* the Receiver has not been dropped
    aggpc,      \* the aggregator thread's position
    cur,        \* the (resource, hash) the aggregator is processing
    mined,      \* the aggregator's HashMap<ResourceKind, u128>
    save_file,  \* the lines written to mined.txt
    mainpc,     \* the main thread's position
    issued,     \* history: every (block, start, end) get_block has returned
    digested,   \* history: how often each <<block, nonce>> was hashed
    emitted,    \* history: every discovery passed to tx.send, in order
    consumed,   \* history: every discovery rx.recv returned, in order
    m_hash,     \* the argument of a match_hash call (MatchSpec)
    m_result    \* its result (MatchSpec)

vars == <<blocks, bm_mined, nextBlock, lock, poisoned, worker, chan, rxAlive,
          aggpc, cur, mined, save_file, mainpc, issued, digested, emitted,
          consumed, m_hash, m_result>>

\* ------------------------------------------------------- ResourceMatcher
Kinds == <<"DIAMOND", "GOLD", "IRON", "COAL">>
None == [kind |-> "None"]
\* No match_hash call has returned yet.
Pending == [kind |-> "pending"]

RECURSIVE Reverse(_)
Reverse(s) == IF s = <<>> THEN <<>> ELSE Reverse(Tail(s)) \o <<Head(s)>>

\* hex::decode: two hex digits (given by value) per byte, high digit first.
hex_decode(v) == [k \in 1..(Len(v) \div 2) |-> 16 * v[2 * k - 1] + v[2 * k]]

\* U256::try_from(&[u8]) reads the slice big-endian and to_big_endian writes
\* the 32 bytes big-endian: the slice ends up right-aligned, zero-padded.
u256_to_big_endian(s) ==
    [i \in Idx |-> IF i < TargetLen - Len(s) THEN 0
                   ELSE s[i - (TargetLen - Len(s)) + 1]]

Resource_new(kind, v) ==
    LET s_buf == Reverse(hex_decode(v))
    IN  [target |-> u256_to_big_endian(s_buf), kind |-> kind]

\* The hex literals of ResourceMatcher::new, digit by digit.
HexDiamond == <<0,0, 0,0, 0,0, 0,0, 0,15, 15,15>>
HexGold    == <<0,0, 0,0, 0,0, 0,2, 15,15, 15,15>>
HexIron    == <<0,0, 0,0, 0,0, 0,15, 15,15, 15,15>>
HexCoal    == <<0,0, 0,0, 0,0, 3,15, 15,15, 15,15>>

\* Faulty variant: GOLD's literal mistyped as "0000000002ff".
ResourceMatcher_new_typo ==
    << Resource_new("DIAMOND", HexDiamond),
       Resource_new("GOLD", <<0,0, 0,0, 0,0, 0,0, 0,2, 15,15>>),
       Resource_new("IRON", HexIron),
       Resource_new("COAL", HexCoal) >>

ResourceMatcher_new ==
    << Resource_new("DIAMOND", HexDiamond),
       Resource_new("GOLD", HexGold),
       Resource_new("IRON", HexIron),
       Resource_new("COAL", HexCoal) >>

\* Faulty variant: the bytes scanned from index 0 upwards.
RECURSIVE scan_up(_, _, _)
scan_up(hash, target, i) ==
    IF i > TargetLen - 1 THEN TRUE
    ELSE IF hash[i] < target[i] THEN TRUE
    ELSE IF hash[i] > target[i] THEN FALSE
    ELSE scan_up(hash, target, i + 1)

scan_from_first(hash, target, i) == scan_up(hash, target, 0)

\* Faulty variant: a digest equal to the target in every byte does not match.
RECURSIVE scan_strict(_, _, _)
scan_strict(hash, target, i) ==
    IF i < 0 THEN FALSE
    ELSE IF hash[i] < target[i] THEN TRUE
    ELSE IF hash[i] > target[i] THEN FALSE
    ELSE scan_strict(hash, target, i - 1)

\* The inner loop of match_hash from index i down to 0: TRUE when the loop
\* returns Some (hash[i] < target[i]) or ends without brk, FALSE on brk.
RECURSIVE scan(_, _, _)
scan(hash, target, i) ==
    IF i < 0 THEN TRUE
    ELSE IF hash[i] < target[i] THEN TRUE
    ELSE IF hash[i] > target[i] THEN FALSE
    ELSE scan(hash, target, i - 1)

RECURSIVE match_from(_, _, _)
match_from(resources, hash, k) ==
    IF k > Len(resources) THEN None
    ELSE IF scan(hash, resources[k].target, TargetLen - 1) THEN resources[k]
    ELSE match_from(resources, hash, k + 1)

\* Faulty variant: the table iterated from its last entry.
match_hash_last(resources, hash) == match_from(Reverse(resources), hash, 1)

match_hash(resources, hash) == match_from(resources, hash, 1)


\* --------------------------------------------------------------- Block
\* hex::encode: two hex digits per byte, high digit first.
hex_encode(bytes) ==
    [k \in 1..(2 * TargetLen) |->
        IF k % 2 = 1 THEN bytes[(k - 1) \div 2] \div 16
        ELSE bytes[(k - 1) \div 2] % 16]

\* The byte at index 28 that makes a digest satisfy class c and no rarer one.
ClassByte(c) == CASE c = 1 -> 0 [] c = 2 -> 1 [] c = 3 -> 5 [] OTHER -> 32

\* Block::hash: blake3 over (created_at, seed, nonce), here a fixed injective
\* function of (block, nonce): bytes 0 and 1 carry the nonce and the block,
\* every fourth digest of a block satisfies some class, the others none.
Block_hash(block, nonce) ==
    LET hit == (block + nonce) % 4 = 3
        c   == (((nonce \div 4) + 2 * (block - 1)) % 4) + 1
    IN  [i \in Idx |->
            IF i = 0 THEN nonce % 256
            ELSE IF i = 1 THEN block % 256
            ELSE IF i = 27 THEN 14
            ELSE IF i = 28 THEN (IF hit THEN ClassByte(c) ELSE 64)
            ELSE 0]

\* -------------------------------------------------------- BlockManager
\* u32 addition as the release build computes it.
add_u32(a, b) == (a + b) % (U32_MAX + 1)

BlockManager_new == << [block |-> 1, nonce |-> 0], [block |-> 2, nonce |-> 0] >>

\* Faulty variant: the chunk length is not clamped to what is left.
chunk_left_unclamped(start, max, chunk) == chunk

\* What get_block takes of a space ending at max (lines 148-151):
\* left = max - start, cut down to the chunk size.
chunk_left(start, max, chunk) ==
    LET left == max - start
    IN  IF left > chunk THEN chunk ELSE left

\* Faulty variant: the rotation does not count the retired block.
RECURSIVE get_block_uncounted(_, _, _)
get_block_uncounted(bs, m, nb) ==
    LET b == bs[1]
        start == b.nonce
    IN  IF start = U32_MAX
        THEN get_block_uncounted(<< bs[2], [block |-> nb, nonce |-> 0] >>, m, nb + 1)
        ELSE LET left == chunk_left(start, U32_MAX, CHUNK_SIZE)
                 end  == add_u32(start, left)
             IN  [ blocks |-> << [block |-> b.block,
                                  nonce |-> add_u32(bs[1].nonce, left)], bs[2] >>,
                   mined  |-> m,
                   next   |-> nb,
                   ret    |-> [block |-> b.block, start |-> start, end |-> end] ]

\* Faulty variant: the rotation makes the new spare a copy of the promoted block.
RECURSIVE get_block_dup_spare(_, _, _)
get_block_dup_spare(bs, m, nb) ==
    LET b == bs[1]
        start == b.nonce
    IN  IF start = U32_MAX
        THEN get_block_dup_spare(<< bs[2], bs[2] >>, m + 1, nb)
        ELSE LET left == chunk_left(start, U32_MAX, CHUNK_SIZE)
                 end  == add_u32(start, left)
             IN  [ blocks |-> << [block |-> b.block,
                                  nonce |-> add_u32(bs[1].nonce, left)], bs[2] >>,
                   mined  |-> m,
                   next   |-> nb,
                   ret    |-> [block |-> b.block, start |-> start, end |-> end] ]

\* Faulty variant: an exhausted active block is not retired.
get_block_no_rotate(bs, m, nb) ==
    LET b == bs[1]
        start == b.nonce
        left == chunk_left(start, U32_MAX, CHUNK_SIZE)
        end  == add_u32(start, left)
    IN  [ blocks |-> << [block |-> b.block,
                         nonce |-> add_u32(bs[1].nonce, left)], bs[2] >>,
          mined  |-> m,
          next   |-> nb,
          ret    |-> [block |-> b.block, start |-> start, end |-> end] ]

\* get_block on the state (bs, m, nb): the state it leaves and the
\* (block, start, end) it returns.  blocks[0] of the code is bs[1].
RECURSIVE get_block(_, _, _)
get_block(bs, m, nb) ==
    LET b == bs[1]
        start == b.nonce
    IN  IF start = U32_MAX
        THEN get_block(<< bs[2], [block |-> nb, nonce |-> 0] >>, m + 1, nb + 1)
        ELSE LET left == chunk_left(start, U32_MAX, CHUNK_SIZE)
                 end  == add_u32(start, left)
             IN  [ blocks |-> << [block |-> b.block,
                                  nonce |-> add_u32(bs[1].nonce, left)], bs[2] >>,
                   mined  |-> m,
                   next   |-> nb,
                   ret    |-> [block |-> b.block, start |-> start, end |-> end] ]

\* The model enters get_block only while a chunk can be issued within MaxMined.
CanAllocate == blocks[1].nonce # U32_MAX \/ bm_mined < MaxMined

\* ------------------------------------------------------------- threads
Running == mainpc # "exited"

Bump(f, k) == IF k \in DOMAIN f THEN [f EXCEPT ![k] = @ + 1] ELSE f @@ (k :> 1)

\* Faulty variant: the poison is ignored (lock().unwrap_or_else(into_inner)).
WorkerLock_ignore_poison(w) ==
    /\ Running
    /\ worker[w].pc = "lock"
    /\ lock = 0
    /\ CanAllocate
    /\ lock' = w
    /\ worker' = [worker EXCEPT ![w].pc = "get_block"]
    /\ UNCHANGED <<blocks, bm_mined, nextBlock, poisoned, chan, rxAlive, aggpc,
                   cur, mined, save_file, mainpc, issued, digested, emitted,
                   consumed, m_hash, m_result>>

\* bm.lock().unwrap() (line 204): the guard is taken, or the lock is
\* poisoned and unwrap panics, which ends the thread and drops its tx.
WorkerLock(w) ==
    /\ Running
    /\ worker[w].pc = "lock"
    /\ lock = 0
    /\ \/ /\ ~poisoned
          /\ CanAllocate
          /\ lock' = w
          /\ worker' = [worker EXCEPT ![w].pc = "get_block"]
       \/ /\ poisoned
          /\ lock' = lock
          /\ worker' = [worker EXCEPT ![w].pc = "panicked"]
    /\ UNCHANGED <<blocks, bm_mined, nextBlock, poisoned, chan, rxAlive, aggpc,
                   cur, mined, save_file, mainpc, issued, digested, emitted,
                   consumed, m_hash, m_result>>

\* Faulty variant: the workers read the header through the shared state, so
\* a call of get_block moves every worker that is hashing to the active block.
WorkerGetBlock_shared(w) ==
    /\ Running
    /\ worker[w].pc = "get_block"
    /\ LET r == get_block(blocks, bm_mined, nextBlock)
       IN  /\ blocks' = r.blocks
           /\ bm_mined' = r.mined
           /\ nextBlock' = r.next
           /\ worker' = [v \in Workers |->
                  IF v = w
                  THEN [pc |-> "hash", block |-> r.ret.block,
                        start |-> r.ret.start, end |-> r.ret.end,
                        n |-> r.ret.start]
                  ELSE IF worker[v].pc = "hash"
                       THEN [worker[v] EXCEPT !.block = r.ret.block]
                       ELSE worker[v]]
           /\ issued' = issued \cup {r.ret}
    /\ lock' = 0
    /\ UNCHANGED <<poisoned, chan, rxAlive, aggpc, cur, mined, save_file,
                   mainpc, digested, emitted, consumed, m_hash, m_result>>

\* bm.get_block() under the guard, the guard dropped at the end of the block
\* (lines 205-208).
WorkerGetBlock(w) ==
    /\ Running
    /\ worker[w].pc = "get_block"
    /\ LET r == get_block(blocks, bm_mined, nextBlock)
       IN  /\ blocks' = r.blocks
           /\ bm_mined' = r.mined
           /\ nextBlock' = r.next
           /\ worker' = [worker EXCEPT ![w] =
                  [pc |-> "hash", block |-> r.ret.block, start |-> r.ret.start,
                   end |-> r.ret.end, n |-> r.ret.start]]
           /\ issued' = issued \cup {r.ret}
    /\ lock' = 0
    /\ UNCHANGED <<poisoned, chan, rxAlive, aggpc, cur, mined, save_file,
                   mainpc, digested, emitted, consumed, m_hash, m_result>>

\* Block::new() panics inside a rotating get_block (get_time_ms unwraps,
\* line 89) before self.blocks is assigned: the guard is dropped during the
\* unwind, which poisons the Mutex.
WorkerGetBlockPanic(w) ==
    /\ Running
    /\ worker[w].pc = "get_block"
    /\ blocks[1].nonce = U32_MAX
    /\ poisoned' = TRUE
    /\ lock' = 0
    /\ worker' = [worker EXCEPT ![w].pc = "panicked"]
    /\ UNCHANGED <<blocks, bm_mined, nextBlock, chan, rxAlive, aggpc, cur,
                   mined, save_file, mainpc, issued, digested, emitted,
                   consumed, m_hash, m_result>>

\* Faulty variant: the result of the send is unwrapped, so a send to a
\* dropped Receiver panics and ends the worker.
WorkerHash_unwrap(w) ==
    /\ Running
    /\ worker[w].pc = "hash"
    /\ LET me == worker[w]
           hash == Block_hash(me.block, me.n)
           res == match_hash(ResourceMatcher_new, hash)
           msg == [resource |-> res, hash |-> hex_encode(hash)]
       IN  /\ digested' = Bump(digested, <<me.block, me.n>>)
           /\ IF res # None
              THEN /\ emitted' = Append(emitted, msg)
                   /\ chan' = IF rxAlive THEN Append(chan, msg) ELSE chan
              ELSE UNCHANGED <<emitted, chan>>
           /\ IF res # None /\ ~rxAlive
              THEN worker' = [worker EXCEPT ![w].pc = "panicked"]
              ELSE IF me.n = me.end
                   THEN worker' = [worker EXCEPT ![w].pc = "lock"]
                   ELSE worker' = [worker EXCEPT ![w].n = add_u32(me.n, 1)]
    /\ UNCHANGED <<blocks, bm_mined, nextBlock, lock, poisoned, rxAlive, aggpc,
                   cur, mined, save_file, mainpc, issued, consumed, m_hash,
                   m_result>>

\* Faulty variant: the loop increments first and leaves once n is past end
\* (a `while n <= end` loop), so that n is incremented at end = MAX.
WorkerHash_overrun(w) ==
    /\ Running
    /\ worker[w].pc = "hash"
    /\ LET me == worker[w]
           hash == Block_hash(me.block, me.n)
           res == match_hash(ResourceMatcher_new, hash)
           msg == [resource |-> res, hash |-> hex_encode(hash)]
           n1 == add_u32(me.n, 1)
       IN  /\ digested' = Bump(digested, <<me.block, me.n>>)
           /\ IF res # None
              THEN /\ emitted' = Append(emitted, msg)
                   /\ chan' = IF rxAlive THEN Append(chan, msg) ELSE chan
              ELSE UNCHANGED <<emitted, chan>>
           /\ IF n1 > me.end
              THEN worker' = [worker EXCEPT ![w].pc = "lock", ![w].n = n1]
              ELSE worker' = [worker EXCEPT ![w].n = n1]
    /\ UNCHANGED <<blocks, bm_mined, nextBlock, lock, poisoned, rxAlive, aggpc,
                   cur, mined, save_file, mainpc, issued, consumed, m_hash,
                   m_result>>

\* One iteration of the inner loop (lines 209-221): hash, match, send, and
\* either leave the loop (n == end) or n += 1.  A send to a dropped Receiver
\* returns Err, which `let _ =` ignores.
WorkerHash(w) ==
    /\ Running
    /\ worker[w].pc = "hash"
    /\ LET me == worker[w]
           hash == Block_hash(me.block, me.n)
           res == match_hash(ResourceMatcher_new, hash)
           msg == [resource |-> res, hash |-> hex_encode(hash)]
       IN  /\ digested' = Bump(digested, <<me.block, me.n>>)
           /\ IF res # None
              THEN /\ emitted' = Append(emitted, msg)
                   /\ chan' = IF rxAlive THEN Append(chan, msg) ELSE chan
              ELSE UNCHANGED <<emitted, chan>>
           /\ IF me.n = me.end
              THEN worker' = [worker EXCEPT ![w].pc = "lock"]
              ELSE worker' = [worker EXCEPT ![w].n = add_u32(me.n, 1)]
    /\ UNCHANGED <<blocks, bm_mined, nextBlock, lock, poisoned, rxAlive, aggpc,
                   cur, mined, save_file, mainpc, issued, consumed, m_hash,
                   m_result>>

\* ---------------------------------------------------------- aggregator
\* Faulty variant: the count of a kind already present is reset instead of incremented.
count_kind_reset(m, kind) == IF kind \in DOMAIN m THEN [m EXCEPT ![kind] = 1]
                             ELSE m @@ (kind :> 1)

\* mined.get_mut(&kind): *v += 1, or mined.insert(kind, 1) (lines 232-236).
count_kind(m, kind) == IF kind \in DOMAIN m THEN [m EXCEPT ![kind] = @ + 1]
                       ELSE m @@ (kind :> 1)

\* rx.recv() returns Ok and the count of the kind is incremented (lines
\* 230-236).
AggRecv ==
    /\ Running
    /\ aggpc = "recv"
    /\ chan # <<>>
    /\ cur' = Head(chan)
    /\ chan' = Tail(chan)
    /\ mined' = count_kind(mined, Head(chan).resource.kind)
    /\ consumed' = Append(consumed, Head(chan))
    /\ aggpc' = "write"
    /\ UNCHANGED <<blocks, bm_mined, nextBlock, lock, poisoned, worker, rxAlive,
                   save_file, mainpc, issued, digested, emitted, m_hash,
                   m_result>>

\* Every Sender is gone: the workers' clones (dropped when a worker panics)
\* and main's tx (dropped when main returns).
NoSender == mainpc # "join" /\ \A w \in Workers : worker[w].pc = "panicked"

\* rx.recv() returns Err: the loop breaks and the thread ends (line 255).
AggRecvErr ==
    /\ Running
    /\ aggpc = "recv"
    /\ chan = <<>>
    /\ NoSender
    /\ aggpc' = "stopped"
    /\ rxAlive' = FALSE
    /\ UNCHANGED <<blocks, bm_mined, nextBlock, lock, poisoned, worker, chan,
                   cur, mined, save_file, mainpc, issued, digested, emitted,
                   consumed, m_hash, m_result>>

\* save_file.write_fmt(..).unwrap() (lines 238-245): the line is written, or
\* the write fails and unwrap panics: the thread ends and rx is dropped.
AggWrite ==
    /\ Running
    /\ aggpc = "write"
    /\ \/ /\ save_file' = Append(save_file, [kind |-> cur.resource.kind,
                                              hash |-> cur.hash])
          /\ aggpc' = "lock"
          /\ rxAlive' = rxAlive
       \/ /\ save_file' = save_file
          /\ aggpc' = "write_failed"
          /\ rxAlive' = FALSE
    /\ UNCHANGED <<blocks, bm_mined, nextBlock, lock, poisoned, worker, chan,
                   cur, mined, mainpc, issued, digested, emitted, consumed,
                   m_hash, m_result>>

\* bm.lock().unwrap() (line 247).
AggLock ==
    /\ Running
    /\ aggpc = "lock"
    /\ lock = 0
    /\ \/ /\ ~poisoned
          /\ lock' = AggId
          /\ aggpc' = "print"
          /\ rxAlive' = rxAlive
       \/ /\ poisoned
          /\ lock' = lock
          /\ aggpc' = "panicked"
          /\ rxAlive' = FALSE
    /\ UNCHANGED <<blocks, bm_mined, nextBlock, poisoned, worker, chan, cur,
                   mined, save_file, mainpc, issued, digested, emitted,
                   consumed, m_hash, m_result>>

\* Faulty variant: the guard outlives the match arm, so the lock is not
\* released after the status line was printed.
AggPrint_keep_guard ==
    /\ Running
    /\ aggpc = "print"
    /\ \/ /\ aggpc' = "recv"
          /\ lock' = lock
          /\ UNCHANGED <<poisoned, rxAlive>>
       \/ /\ aggpc' = "panicked"
          /\ lock' = 0
          /\ poisoned' = TRUE
          /\ rxAlive' = FALSE
    /\ UNCHANGED <<blocks, bm_mined, nextBlock, worker, chan, cur, mined,
                   save_file, mainpc, issued, digested, emitted, consumed,
                   m_hash, m_result>>

\* print! and flush().ok().expect(..) under the guard (lines 249-253), the
\* guard dropped at the end of the arm; a failing stdout panics with the
\* guard held, which poisons the Mutex.
AggPrint ==
    /\ Running
    /\ aggpc = "print"
    /\ lock' = 0
    /\ \/ /\ aggpc' = "recv"
          /\ UNCHANGED <<poisoned, rxAlive>>
       \/ /\ aggpc' = "panicked"
          /\ poisoned' = TRUE
          /\ rxAlive' = FALSE
    /\ UNCHANGED <<blocks, bm_mined, nextBlock, worker, chan, cur, mined,
                   save_file, mainpc, issued, digested, emitted, consumed,
                   m_hash, m_result>>

\* ---------------------------------------------------------------- main
\* Every handle.join() has returned (lines 260-262): main returns, dropping
\* its tx.
MainReturn ==
    /\ mainpc = "join"
    /\ \A w \in Workers : worker[w].pc = "panicked"
    /\ mainpc' = "returned"
    /\ UNCHANGED <<blocks, bm_mined, nextBlock, lock, poisoned, worker, chan,
                   rxAlive, aggpc, cur, mined, save_file, issued, digested,
                   emitted, consumed, m_hash, m_result>>

\* The process exits after main has returned; every other thread stops.
ProcessExit ==
    /\ mainpc = "returned"
    /\ mainpc' = "exited"
    /\ UNCHANGED <<blocks, bm_mined, nextBlock, lock, poisoned, worker, chan,
                   rxAlive, aggpc, cur, mined, save_file, issued, digested,
                   emitted, consumed, m_hash, m_result>>

\* ------------------------------------------------------- specification
ZeroDigest == [i \in Idx |-> 0]

Init ==
    /\ blocks = BlockManager_new
    /\ bm_mined = 0
    /\ nextBlock = 3
    /\ lock = 0
    /\ poisoned = FALSE
    /\ worker = [w \in Workers |->
                    [pc |-> "lock", block |-> 0, start |-> 0, end |-> 0, n |-> 0]]
    /\ chan = <<>>
    /\ rxAlive = TRUE
    /\ aggpc = "recv"
    /\ cur = [resource |-> None, hash |-> <<>>]
    /\ mined = <<>>
    /\ save_file = <<>>
    /\ mainpc = "join"
    /\ issued = {}
    /\ digested = <<>>
    /\ emitted = <<>>
    /\ consumed = <<>>
    /\ m_hash = ZeroDigest
    /\ m_result = Pending

Next ==
    \/ \E w \in Workers : WorkerLock(w)
    \/ \E w \in Workers : WorkerGetBlock(w)
    \/ \E w \in Workers : WorkerGetBlockPanic(w)
    \/ \E w \in Workers : WorkerHash(w)
    \/ AggRecv
    \/ AggRecvErr
    \/ AggWrite
    \/ AggLock
    \/ AggPrint
    \/ MainReturn
    \/ ProcessExit

Spec == Init /\ [][Next]_vars

\* Each thread the OS schedules keeps running while it can take a step.
WorkerStep(w) ==
    WorkerLock(w) \/ WorkerGetBlock(w) \/ WorkerGetBlockPanic(w) \/ WorkerHash(w)
AggStep == AggRecv \/ AggRecvErr \/ AggWrite \/ AggLock \/ AggPrint
MainStep == MainReturn \/ ProcessExit

FairSpec ==
    /\ Spec
    /\ \A w \in Workers : WF_vars(WorkerStep(w))
    /\ WF_vars(AggStep)
    /\ WF_vars(MainStep)


\* ------------------------------------------- match_hash as a pure function
\* The digests match_hash is applied to: around every threshold byte, with
\* the bytes the thresholds leave at zero set or clear.
DigestInputs ==
    { [i \in Idx |->
          CASE i = 31 -> b31 [] i = 30 -> b30 [] i = 29 -> b29 [] i = 28 -> b28
            [] i = 27 -> b27 [] i = 26 -> b26 [] i = 25 -> b25 [] i = 0 -> b0
            [] OTHER -> 0] :
        b31 \in {0, 1}, b30 \in {0, 1}, b29 \in {0, 1},
        b28 \in {0, 1, 2, 3, 15, 16, 63, 64},
        b27 \in {14, 15, 16, 255}, b26 \in {0, 254, 255},
        b25 \in {0, 1}, b0 \in {0, 1, 255} }

MatchInit ==
    /\ blocks = BlockManager_new
    /\ bm_mined = 0
    /\ nextBlock = 3
    /\ lock = 0
    /\ poisoned = FALSE
    /\ worker = [w \in Workers |->
                    [pc |-> "lock", block |-> 0, start |-> 0, end |-> 0, n |-> 0]]
    /\ chan = <<>>
    /\ rxAlive = TRUE
    /\ aggpc = "recv"
    /\ cur = [resource |-> None, hash |-> <<>>]
    /\ mined = <<>>
    /\ save_file = <<>>
    /\ mainpc = "join"
    /\ issued = {}
    /\ digested = <<>>
    /\ emitted = <<>>
    /\ consumed = <<>>
    /\ m_hash \in DigestInputs
    /\ m_result = Pending

\* rm.match_hash(hash.as_slice()) on the table ResourceMatcher::new built.
Classify ==
    /\ m_result = Pending
    /\ m_result' = match_hash(ResourceMatcher_new, m_hash)
    /\ UNCHANGED <<blocks, bm_mined, nextBlock, lock, poisoned, worker, chan,
                   rxAlive, aggpc, cur, mined, save_file, mainpc, issued,
                   digested, emitted, consumed, m_hash>>

MatchNext == Classify

MatchSpec == MatchInit /\ [][MatchNext]_vars


\* ======================================================= claims, match_hash
\* The threshold the table binds to a kind.
ThresholdOf(kind) ==
    ResourceMatcher_new[CHOOSE k \in 1..Len(ResourceMatcher_new) :
                            ResourceMatcher_new[k].kind = kind].target

\* h <= t as unsigned integers whose most significant byte is the LAST one
\* (index 31), i.e. as little-endian values.
LeqLE(h, t) ==
    \/ h = t
    \/ \E k \in Idx : h[k] < t[k] /\ \A j \in Idx : j > k => h[j] = t[j]

\* h <= t as big-endian unsigned integers (index 0 most significant).
LeqBE(h, t) ==
    \/ h = t
    \/ \E k \in Idx : h[k] < t[k] /\ \A j \in Idx : j < k => h[j] = t[j]

\* The positions (1 = rarest) of the kinds whose threshold h satisfies.
Satisfied(h) == {k \in 1..Len(Kinds) : LeqLE(h, ThresholdOf(Kinds[k]))}

Rarest(S) == CHOOSE k \in S : \A j \in S : k <= j

\* C5: match_hash returns the rarest kind whose threshold the digest
\* satisfies, and None exactly when the digest satisfies no threshold.
C5_RarestSatisfied ==
    m_result # Pending =>
        IF Satisfied(m_hash) = {} THEN m_result = None
        ELSE /\ m_result # None
             /\ m_result.kind = Kinds[Rarest(Satisfied(m_hash))]
             /\ m_result.target = ThresholdOf(m_result.kind)

\* A digest that satisfies every threshold was classified DIAMOND.
C5_Witness ==
    /\ m_result.kind = "DIAMOND"
    /\ Satisfied(m_hash) = 1..Len(Kinds)

\* C6 as stated: for each threshold the scan of match_hash decides
\* "digest <= threshold" on the big-endian values, and a digest whose
\* big-endian value exceeds the loosest threshold is classified None.
C6_BigEndianAsStated ==
    m_result # Pending =>
        /\ \A k \in 1..Len(Kinds) :
              scan(m_hash, ThresholdOf(Kinds[k]), TargetLen - 1)
                  <=> LeqBE(m_hash, ThresholdOf(Kinds[k]))
        /\ ~LeqBE(m_hash, ThresholdOf("COAL")) => m_result = None

\* C6 amended: the scan starts at the last byte (index 31) and decides
\* "digest <= threshold" on the values whose most significant byte is the
\* last one; a digest above the loosest threshold in that order is None.
C6_LastByteFirst ==
    m_result # Pending =>
        /\ \A k \in 1..Len(Kinds) :
              scan(m_hash, ThresholdOf(Kinds[k]), TargetLen - 1)
                  <=> LeqLE(m_hash, ThresholdOf(Kinds[k]))
        /\ ~LeqLE(m_hash, ThresholdOf("COAL")) => m_result = None

\* A digest above the loosest threshold (byte 28 is 64 > 63) that a
\* big-endian comparison would accept (byte 0 is 0), classified None.
C6_Witness ==
    /\ m_result = None
    /\ m_hash[31] = 0 /\ m_hash[30] = 0 /\ m_hash[29] = 0 /\ m_hash[28] = 64
    /\ ~LeqLE(m_hash, ThresholdOf("COAL"))
    /\ LeqBE(m_hash, ThresholdOf("COAL"))

\* C7: a digest equal in every byte to a kind's threshold is classified as
\* that kind, unless it satisfies a rarer kind's threshold, which then wins.
C7_EqualSatisfies ==
    m_result # Pending =>
        \A k \in 1..Len(Kinds) :
            (\A i \in Idx : m_hash[i] = ThresholdOf(Kinds[k])[i]) =>
                IF \E j \in Satisfied(m_hash) : j < k
                THEN \E j \in Satisfied(m_hash) : j < k /\ m_result.kind = Kinds[j]
                ELSE m_result.kind = Kinds[k]

\* The digest equal to GOLD's threshold was classified GOLD.
C7_Witness ==
    /\ m_hash = ThresholdOf("GOLD")
    /\ m_result.kind = "GOLD"

\* Each looser kind accepts an input digest that the next rarer kind rejects.
StrictlyWider ==
    \A k \in 1..(Len(Kinds) - 1) :
        \E d \in DigestInputs :
            /\ scan(d, ThresholdOf(Kinds[k + 1]), TargetLen - 1)
            /\ ~scan(d, ThresholdOf(Kinds[k]), TargetLen - 1)

\* C8: under the scan of match_hash the thresholds of DIAMOND, GOLD, IRON,
\* COAL are nested: a digest accepted for a kind is accepted for every
\* looser kind, and each looser kind accepts a digest the next rarer rejects;
\* the table lists the kinds in that order.
C8_Nested ==
    /\ \A k \in 1..Len(Kinds) : ResourceMatcher_new[k].kind = Kinds[k]
    /\ StrictlyWider
    /\ \A k \in 1..Len(Kinds) : \A j \in 1..Len(Kinds) :
          (k < j /\ scan(m_hash, ThresholdOf(Kinds[k]), TargetLen - 1))
              => scan(m_hash, ThresholdOf(Kinds[j]), TargetLen - 1)

\* A classified digest that IRON and COAL accept and GOLD and DIAMOND reject.
C8_Witness ==
    /\ m_result.kind = "IRON"
    /\ scan(m_hash, ThresholdOf("COAL"), TargetLen - 1)
    /\ ~scan(m_hash, ThresholdOf("GOLD"), TargetLen - 1)
    /\ ~scan(m_hash, ThresholdOf("DIAMOND"), TargetLen - 1)


\* ============================================= claims, BlockManager/threads
Range(f) == {f[x] : x \in DOMAIN f}
Min(a, b) == IF a < b THEN a ELSE b

\* The nonces a worker hashes for a chunk: start to end inclusive.
NoncesOf(c) == c.start..c.end

\* A block is exhausted once a chunk ending at the last nonce was issued.
Exhausted(b) == \E c \in issued : c.block = b /\ c.end = U32_MAX

\* C1 as stated: the ranges get_block returns for one block are pairwise
\* disjoint, and once the block is exhausted their union is 0..MAX.
C1_PartitionAsStated ==
    /\ \A c1 \in issued : \A c2 \in issued :
          (c1 # c2 /\ c1.block = c2.block) => NoncesOf(c1) \cap NoncesOf(c2) = {}
    /\ \A c \in issued : Exhausted(c.block) =>
          UNION {NoncesOf(d) : d \in {e \in issued : e.block = c.block}} = 0..U32_MAX

\* C2 as stated: no (block, nonce) is hashed twice, and no digest is sent
\* as a discovery twice.
C2_DigestedOnceAsStated ==
    /\ \A k \in DOMAIN digested : digested[k] <= 1
    /\ \A i \in DOMAIN emitted : \A j \in DOMAIN emitted :
          emitted[i].hash = emitted[j].hash => i = j

\* A call of get_block by worker w returns in this step.
GetBlockReturns(w) == worker[w].pc = "get_block" /\ worker'[w].pc = "hash"

\* C3: a call of get_block that finds the active block's offset at MAX
\* returns a chunk starting at 0 of the former spare, a block other than the
\* exhausted one, and adds exactly 1 to the counter of retired blocks; no
\* other step changes that counter.
C3_Rotation ==
    [][ /\ \A w \in Workers :
             (GetBlockReturns(w) /\ blocks[1].nonce = U32_MAX) =>
                 /\ worker'[w].start = 0
                 /\ worker'[w].block = blocks[2].block
                 /\ worker'[w].block # blocks[1].block
                 /\ blocks'[1].block = blocks[2].block
                 /\ bm_mined' = bm_mined + 1
        /\ bm_mined' # bm_mined =>
             \E w \in Workers : GetBlockReturns(w) /\ blocks[1].nonce = U32_MAX
      ]_vars

\* A worker holds the first chunk of the promoted spare after one rotation.
C3_Witness ==
    /\ bm_mined = 1
    /\ \E w \in Workers :
          worker[w].pc = "hash" /\ worker[w].block = 2 /\ worker[w].start = 0

\* The boundary chunk of the real space, in units of 5 nonces so that the
\* numbers fit TLC's integers: u32::MAX = 5 * 858993459,
\* CHUNK_SIZE = 5 * 10000, 17295 = 5 * 3459.
BoundaryChunk ==
    LET max == 858993459
        o   == max - 3459
    IN  /\ chunk_left(o, max, 10000) = 3459
        /\ o + chunk_left(o, max, 10000) = max
        /\ chunk_left(o - 10000, max, 10000) = 10000

\* C4: a call of get_block that finds the active offset o below MAX returns
\* start = o and end = o + min(CHUNK_SIZE, MAX - o), leaves the offset at
\* end, never beyond MAX and above o; when fewer than CHUNK_SIZE nonces
\* are left the chunk has length MAX - o and the offset is left at MAX, so
\* that the next call rotates (so for offset MAX - 17295, chunk size 50000).
C4_ChunkArithmetic ==
    [][ /\ BoundaryChunk
        /\ \A w \in Workers :
             (GetBlockReturns(w) /\ blocks[1].nonce # U32_MAX) =>
                 LET o == blocks[1].nonce
                     len == Min(CHUNK_SIZE, U32_MAX - o)
                 IN  /\ worker'[w].start = o
                     /\ worker'[w].end = o + len
                     /\ worker'[w].block = blocks[1].block
                     /\ blocks'[1] = [block |-> blocks[1].block, nonce |-> o + len]
                     /\ blocks'[2] = blocks[2]
                     /\ worker'[w].end <= U32_MAX
                     /\ worker'[w].end > o
                     /\ U32_MAX - o < CHUNK_SIZE =>
                           /\ worker'[w].end - worker'[w].start = U32_MAX - o
                           /\ blocks'[1].nonce = U32_MAX
      ]_vars

\* A short final chunk was issued and the call after it rotated.
C4_Witness ==
    /\ \E c \in issued :
          c.block = 1 /\ c.end = U32_MAX /\ c.end - c.start < CHUNK_SIZE
    /\ bm_mined = 1
    /\ \E c \in issued : c.block = 2 /\ c.start = 0

\* How many discoveries of a kind a sequence holds.
CountOf(kind, seq) ==
    Cardinality({i \in DOMAIN seq : seq[i].resource.kind = kind})

\* The aggregator is not between receiving a discovery and writing its line.
Persisted == aggpc \notin {"write", "write_failed"}

\* C9: the count of each kind is the number of received discoveries of that
\* kind, whatever their order of arrival, and once the line of the last
\* received discovery is written the file holds one line per received
\* discovery.
C9_Counts ==
    /\ \A kind \in Range(Kinds) :
          (IF kind \in DOMAIN mined THEN mined[kind] ELSE 0) = CountOf(kind, consumed)
    /\ DOMAIN mined \subseteq Range(Kinds)
    /\ Persisted =>
          /\ Len(save_file) = Len(consumed)
          /\ \A i \in DOMAIN save_file :
                save_file[i] = [kind |-> consumed[i].resource.kind,
                                hash |-> consumed[i].hash]

\* Two DIAMOND and one IRON were processed, the IRON having arrived between
\* the two DIAMOND.
C9_Witness ==
    /\ aggpc = "recv"
    /\ Len(consumed) = 3
    /\ consumed[2].resource.kind = "IRON"
    /\ mined = ("DIAMOND" :> 2) @@ ("IRON" :> 1)
    /\ Len(save_file) = 3

\* Every worker thread has ended, or the process has exited.
WorkersStopped ==
    mainpc = "exited" \/ \A w \in Workers : worker[w].pc = "panicked"

EmitIdx == 1..(2 * (MaxMined + 2) * (U32_MAX + 1))

\* C11 as stated: every emitted discovery is in the channel or was received,
\* each once and in the order of emission (none dropped, none received
\* twice), no discovery is left in a channel whose Receiver is gone, and
\* every emitted discovery is eventually counted and has its line written.
C11_ExactlyOnceAsStated ==
    /\ [](emitted = consumed \o chan)
    /\ [](~rxAlive => chan = <<>>)
    /\ \A i \in EmitIdx :
          (Len(emitted) >= i) ~> (Len(consumed) >= i /\ Len(save_file) >= i)

\* C12: once the lock is poisoned no thread holds it or is inside
\* get_block, no step allocates a chunk or changes the BlockManager, the
\* poison is never cleared, and the next step of a worker that is at its
\* allocation attempt ends that worker.
C12_PoisonHalts ==
    [][ poisoned =>
          /\ lock = 0
          /\ \A w \in Workers : worker[w].pc # "get_block"
          /\ poisoned'
          /\ issued' = issued
          /\ <<blocks, bm_mined, nextBlock>>' = <<blocks, bm_mined, nextBlock>>
          /\ \A w \in Workers :
                (worker[w].pc = "lock" /\ worker'[w] # worker[w]) =>
                    worker'[w].pc = "panicked"
          /\ \A w \in Workers :
                worker[w].pc = "panicked" => worker'[w].pc = "panicked"
      ]_vars

\* The aggregator poisoned the lock on a failing stdout while both workers
\* were hashing; one of them has since ended at its allocation attempt and
\* the other is still inside its chunk.
C12_Witness ==
    /\ poisoned
    /\ aggpc = "panicked"
    /\ \E w \in Workers : worker[w].pc = "panicked" /\ worker[w].end # 0
    /\ \E w \in Workers : worker[w].pc = "hash"

\* C13: in every state a lock holder can observe the BlockManager holds
\* exactly two headers, the active one and a spare that is another block,
\* whose offset is 0 and of which no chunk was issued; and a rotation, in the
\* one step that the caller holds the lock for, makes the spare the active
\* header and puts a block never seen before in the spare's place.
C13_ActiveAndSpare ==
    [][ /\ Len(blocks) = 2
        /\ blocks[1].block # blocks[2].block
        /\ blocks[2].nonce = 0
        /\ \A c \in issued : c.block # blocks[2].block
        /\ \A w \in Workers :
              (GetBlockReturns(w) /\ blocks[1].nonce = U32_MAX) =>
                  /\ lock = w
                  /\ blocks'[1].block = blocks[2].block
                  /\ blocks'[2].nonce = 0
                  /\ blocks'[2].block \notin {blocks[1].block, blocks[2].block}
                  /\ \A c \in issued : c.block # blocks'[2].block
      ]_vars

\* The aggregator holds the lock after a rotation and sees block 2 active
\* and the new block 3 as the spare.
C13_Witness ==
    /\ lock = AggId
    /\ bm_mined = 1
    /\ blocks[1].block = 2
    /\ blocks[2] = [block |-> 3, nonce |-> 0]

\* C14: a call of get_block never returns a chunk of a block of which a
\* chunk ending at MAX was returned before; the block whose last chunk is
\* issued is the active one with its offset at MAX, so that the next call
\* retires it, and a retired block is neither active nor the spare again.
C14_RetiredAtMax ==
    [][ /\ \A w \in Workers :
              GetBlockReturns(w) =>
                  /\ ~Exhausted(worker'[w].block)
                  /\ worker'[w].end = U32_MAX =>
                        blocks'[1] = [block |-> worker'[w].block, nonce |-> U32_MAX]
        /\ \A c \in issued :
              (c.end = U32_MAX /\ blocks[1].block # c.block) =>
                  /\ blocks'[1].block # c.block
                  /\ blocks'[2].block # c.block
      ]_vars

\* Block 1 was retired and a call after that returned a chunk of block 2.
C14_Witness ==
    /\ Exhausted(1)
    /\ blocks[1].block = 2
    /\ \E c \in issued : c.block = 2
    /\ \A w \in Workers : worker[w].pc = "hash" /\ worker[w].block = 2

\* C15 as stated: no thread holds the BlockManager lock while it computes a
\* digest, and whoever holds the lock is a worker about to do the allocation
\* bookkeeping of get_block, nothing else.
C15_LockOnlyForAllocationAsStated ==
    /\ \A w \in Workers : worker[w].pc = "hash" => lock # w
    /\ lock # 0 => (lock \in Workers /\ worker[lock].pc = "get_block")

\* The chunk a worker works on: the header and the range get_block gave it.
ChunkOf(w) == [block |-> worker[w].block, start |-> worker[w].start,
               end |-> worker[w].end]

\* C16: the header a call of get_block returns is that of the block whose
\* offset the call advanced, to the end of the returned range; and while a
\* worker hashes its chunk, no allocation or rotation by another worker
\* changes the header, start or end it uses, even when the block it works
\* on has since been retired.
C16_SnapshotFixed ==
    [][ \A w \in Workers :
          /\ GetBlockReturns(w) =>
                /\ blocks'[1].block = worker'[w].block
                /\ blocks'[1].nonce = worker'[w].end
                /\ ChunkOf(w)' \notin issued
          /\ (worker[w].pc = "hash" /\ worker'[w].pc = "hash") =>
                ChunkOf(w)' = ChunkOf(w)
          /\ (\E v \in Workers \ {w} : GetBlockReturns(v)) =>
                worker'[w] = worker[w]
      ]_vars

\* A worker still hashes a chunk of block 1 after the other worker's call
\* retired block 1 and was given a chunk of block 2.
C16_Witness ==
    \E w \in Workers : \E v \in Workers :
        /\ worker[w].pc = "hash" /\ worker[w].block = 1
        /\ worker[v].pc = "hash" /\ worker[v].block = 2
        /\ blocks[1].block = 2
        /\ bm_mined = 1

\* The aggregator thread has ended: its loop broke on a closed channel, or
\* it panicked.
AggEnded == aggpc \in {"stopped", "write_failed", "panicked"}

\* The discoveries whose line is in the file.
Processed == Len(save_file)

\* C17 as stated: the aggregator ends only when every Sender is gone, and
\* when the aggregator has ended or the program has exited, every discovery
\* that was sent has been received and has its line in the file.
C17_DrainsAsStated ==
    /\ AggEnded => NoSender
    /\ (AggEnded \/ mainpc = "exited") =>
          /\ chan = <<>>
          /\ Processed = Len(consumed)

\* Worker w hashes a nonce in this step, the digest matches a class, and the
\* Receiver is gone: its send fails.
SendFails(w) ==
    /\ worker[w].pc = "hash"
    /\ worker'[w] # worker[w]
    /\ ~rxAlive
    /\ match_hash(ResourceMatcher_new,
                  Block_hash(worker[w].block, worker[w].n)) # None

\* The sends that failed so far: emitted, neither queued nor received.
FailedSends == Len(emitted) - Len(consumed) - Len(chan)

\* C18: a step in which a worker's send fails leaves the worker running, its
\* chunk unchanged and its cursor where a successful send would leave it (on
\* the next nonce, or at the allocation of the next chunk when the nonce was
\* the chunk's end), puts nothing in the channel and leaves the BlockManager,
\* the lock and its poison flag unchanged; and no worker ever ends for
\* another cause than a panic on or under the BlockManager lock.
C18_SendFailureIgnored ==
    [][ /\ \A w \in Workers :
              SendFails(w) =>
                  /\ worker'[w].pc = (IF worker[w].n = worker[w].end
                                      THEN "lock" ELSE "hash")
                  /\ worker'[w].n = (IF worker[w].n = worker[w].end
                                     THEN worker[w].n ELSE worker[w].n + 1)
                  /\ ChunkOf(w)' = ChunkOf(w)
                  /\ chan' = chan
                  /\ <<blocks, bm_mined, nextBlock, lock, poisoned>>'
                        = <<blocks, bm_mined, nextBlock, lock, poisoned>>
        /\ \A w \in Workers :
              (worker[w].pc # "panicked" /\ worker'[w].pc = "panicked") => poisoned'
      ]_vars

\* A send has failed, no worker has ended, and a worker is allocating its
\* next chunk with the Receiver gone.
C18_Witness ==
    /\ ~rxAlive
    /\ ~poisoned
    /\ FailedSends >= 1
    /\ \A w \in Workers : worker[w].pc # "panicked"
    /\ \E w \in Workers : worker[w].pc = "get_block" /\ worker[w].end # 0

\* No thread has failed and the process runs.
NoFailure ==
    /\ Running
    /\ ~poisoned
    /\ aggpc \notin {"write_failed", "panicked"}
    /\ \A w \in Workers : worker[w].pc # "panicked"

C20_NoOverflow ==
    /\ \A c \in issued :
          /\ 0 <= c.start /\ c.start < c.end /\ c.end <= U32_MAX
          /\ c.end - c.start <= CHUNK_SIZE
    /\ \A i \in 1..2 : blocks[i].nonce \in 0..U32_MAX
    /\ \A c \in issued : c.block = blocks[1].block => c.end <= blocks[1].nonce
    /\ (blocks[1].nonce # 0) =>
          \E c \in issued : c.block = blocks[1].block /\ c.end = blocks[1].nonce
    /\ \A w \in Workers :
          worker[w].end # 0 =>
              /\ ChunkOf(w) \in issued
              /\ worker[w].start <= worker[w].n
              /\ worker[w].n <= worker[w].end
              /\ \A k \in worker[w].start..(worker[w].n - 1) :
                    <<worker[w].block, k>> \in DOMAIN digested

\* A worker has hashed the last nonce of the space, its cursor still at
\* end = MAX, and has gone on to its next allocation.
C20_Witness ==
    \E w \in Workers :
        /\ worker[w].pc = "get_block"
        /\ worker[w].end = U32_MAX
        /\ worker[w].n = U32_MAX
        /\ <<worker[w].block, U32_MAX>> \in DOMAIN digested

=============================================================================
